---- MODULE Spec2Model ----
(***************************************************************************)
(* Checkout pipeline of server.js (Express + remote Orders/Payments API)   *)
(* and the client cart store cart.js.                                      *)
(*                                                                         *)
(* server.js holds two concatenated variants of the same server; the      *)
(* checkout logic of both is line-for-line the same, so one model covers   *)
(* both (first variant: lines 1-360, second variant: lines 361-685).       *)
(***************************************************************************)
EXTENDS Integers, Sequences, FiniteSets, TLC

(***************************************************************************)
(* Bounds of the model.                                                    *)
(***************************************************************************)
\* longest cart a request submits
MaxCart == 2
\* largest quantity of a line of the browser's cart
MaxQty == 3
\* number of checkout requests in one behaviour of the concurrent server
MaxReq == 2
\* number of price-file reloads in one behaviour
MaxReload == 2

(***************************************************************************)
(* JavaScript values.  Every value is a record of the same shape so that   *)
(* values of different JavaScript types can be compared.                   *)
(*   k = "number"    an integer, in n                                      *)
(*   k = "fraction"  a non-integer number n + 1/2 (1.5 is Frac(1))         *)
(*   k = "NaN", "undefined", "null", "function", "string" (text in s)      *)
(***************************************************************************)
Num(i) == [k |-> "number", n |-> i, s |-> ""]
Frac(i) == [k |-> "fraction", n |-> i, s |-> ""]
Str(t) == [k |-> "string", n |-> 0, s |-> t]
UNDEF == [k |-> "undefined", n |-> 0, s |-> ""]
NULL == [k |-> "null", n |-> 0, s |-> ""]
NAN == [k |-> "NaN", n |-> 0, s |-> ""]
FUNC == [k |-> "function", n |-> 0, s |-> ""]

\* x == null
IsNullish(x) == x.k \in {"undefined", "null"}

\* Number.isInteger(x)
IsInteger(x) == x.k = "number"

\* a * b and a + b on the values the checkout meets: integers are exact, anything
\* that is not a number (a function taken from the prototype) gives NaN
Mul(a, b) == IF a.k = "number" /\ b.k = "number" THEN Num(a.n * b.n) ELSE NAN
Add(a, b) == IF a.k = "number" /\ b.k = "number" THEN Num(a.n + b.n) ELSE NAN

(***************************************************************************)
(* Price book.  A table is a function from its own keys to JavaScript      *)
(* values; three of the default table's rows are modelled.                 *)
(***************************************************************************)
defaultPriceBook ==
    [name \in {"Small Fries", "Soda Can", "Water Bottle"} |->
        CASE name = "Small Fries" -> Num(299)
          [] name = "Soda Can" -> Num(150)
          [] name = "Water Bottle" -> Num(100)]

\* contents data/prices.json may have: a repriced table, a table that JSON
\* allows and the loader accepts unvalidated (a null price, a negative price,
\* a new item), and a file that does not parse to an object
RepricedBook ==
    [name \in {"Small Fries", "Soda Can", "Water Bottle"} |->
        CASE name = "Small Fries" -> Num(349)
          [] name = "Soda Can" -> Num(175)
          [] name = "Water Bottle" -> Num(125)]

LooseBook ==
    [name \in {"Small Fries", "Soda Can", "Unicorn Combo"} |->
        CASE name = "Small Fries" -> Num(310)
          [] name = "Soda Can" -> NULL
          [] name = "Unicorn Combo" -> Num(-100)]

PriceFiles ==
    { [object |-> TRUE, table |-> RepricedBook],
      [object |-> TRUE, table |-> LooseBook],
      [object |-> FALSE, table |-> defaultPriceBook] }

\* the contents the file takes while requests run concurrently
ConcurrentPriceFiles ==
    { [object |-> TRUE, table |-> RepricedBook],
      [object |-> FALSE, table |-> defaultPriceBook] }

\* members every plain object inherits from Object.prototype (one modelled)
ObjectPrototype == {"toString"}

\* PRICE_BOOK[name]: own key, else the prototype chain, else undefined
Lookup(book, name) ==
    IF name \in DOMAIN book THEN book[name]
    ELSE IF name \in ObjectPrototype THEN FUNC
    ELSE UNDEF

\* the body of loadPriceBookFromFile: the table after reading the file
loadPriceBookFromFile(book, file) ==
    IF file.object THEN file.table ELSE book

(***************************************************************************)
(* Helpers: sanitizeCart and sumCents.                                     *)
(***************************************************************************)
Thrown(msg) == [ok |-> FALSE, items |-> <<>>, error |-> msg]
Returned(items) == [ok |-> TRUE, items |-> items, error |-> ""]

\* mutant: the line is priced from the built-in table, not the live one
sanitizeLineBuiltIn(book, line) ==
    LET price == Lookup(defaultPriceBook, line.name) IN
    IF IsNullish(price) THEN Thrown("Unknown item: " \o line.name)
    ELSE IF ~IsInteger(line.qty) \/ line.qty.n <= 0
         THEN Thrown("Bad qty for " \o line.name)
    ELSE Returned(<<[name |-> line.name, qty |-> line.qty, priceCents |-> price]>>)

\* mutant: the quantity test is qty < 0, which lets a quantity of zero through
sanitizeLineZeroQty(book, line) ==
    LET price == Lookup(book, line.name) IN
    IF IsNullish(price) THEN Thrown("Unknown item: " \o line.name)
    ELSE IF ~IsInteger(line.qty) \/ line.qty.n < 0
         THEN Thrown("Bad qty for " \o line.name)
    ELSE Returned(<<[name |-> line.name, qty |-> line.qty, priceCents |-> price]>>)

\* one callback of cart.map: the line {name, qty} priced, or the exception
sanitizeLine(book, line) ==
    LET price == Lookup(book, line.name) IN
    IF IsNullish(price) THEN Thrown("Unknown item: " \o line.name)
    ELSE IF ~IsInteger(line.qty) \/ line.qty.n <= 0
         THEN Thrown("Bad qty for " \o line.name)
    ELSE Returned(<<[name |-> line.name, qty |-> line.qty, priceCents |-> price]>>)

RECURSIVE sanitizeFrom(_, _, _, _)
sanitizeFrom(book, cart, i, acc) ==
    IF i > Len(cart) THEN Returned(acc)
    ELSE LET one == sanitizeLine(book, cart[i]) IN
         IF one.ok THEN sanitizeFrom(book, cart, i + 1, acc \o one.items)
         ELSE one

\* mutant: the table is replaced while the cart is mapped, so that the first line
\* is priced from the table before it and the rest from the live one
sanitizeCartAcrossReload(book, cart) ==
    IF cart = <<>> THEN Returned(<<>>)
    ELSE LET first == sanitizeLine(defaultPriceBook, cart[1]) IN
         IF first.ok THEN sanitizeFrom(book, cart, 2, first.items) ELSE first

\* sanitizeCart(cart) against the table PRICE_BOOK names when it is called
sanitizeCart(book, cart) == sanitizeFrom(book, cart, 1, <<>>)

RECURSIVE sumFrom(_, _, _)
sumFrom(items, i, s) ==
    IF i > Len(items) THEN s
    ELSE sumFrom(items, i + 1, Add(s, Mul(items[i].priceCents, items[i].qty)))

\* items.reduce((s, i) => s + i.priceCents * i.qty, 0)
sumCents(items) == sumFrom(items, 1, Num(0))

(***************************************************************************)
(* Validation: the zod schemas AddressTextOrObject and CheckoutBody.       *)
(*                                                                         *)
(* A request body is a record                                              *)
(*   cart: a sequence of lines [name, qty, priceCents] (priceCents is a    *)
(*         unit price the client may add; the schema does not know it),    *)
(*   contact: [name, phone, email], pickupTime, fulfillment, paymentToken: *)
(*         JavaScript values,                                              *)
(*   address: undefined, a string (k = "string", text in s) or an object   *)
(*         (k = "object") with the five address fields.                    *)
(***************************************************************************)
NoAddress ==
    [k |-> "undefined", s |-> "", address_line_1 |-> UNDEF, locality |-> UNDEF,
     administrative_district_level_1 |-> UNDEF, postal_code |-> UNDEF, country |-> UNDEF]
TextAddress(t) == [NoAddress EXCEPT !.k = "string", !.s = t]
ObjectAddress(line1, locality, country) ==
    [NoAddress EXCEPT !.k = "object", !.address_line_1 = line1,
                      !.locality = locality, !.country = country]

\* z.string()
IsString(x) == x.k = "string"
\* z.string().min(n)
IsStringMin(x, n) == x.k = "string" /\ Len(x.s) >= n
\* z.string().optional()
IsOptString(x) == x.k \in {"undefined", "string"}

\* addresses z.string().email() accepts, among the ones modelled
WellFormedEmails == {"ann@example.com"}

\* AddressTextOrObject
AddressOk(a) ==
    \/ a.k = "undefined"
    \/ a.k = "string" /\ Len(a.s) >= 1
    \/ /\ a.k = "object"
       /\ IsStringMin(a.address_line_1, 1)
       /\ IsOptString(a.locality)
       /\ IsOptString(a.administrative_district_level_1)
       /\ IsOptString(a.postal_code)
       /\ IsOptString(a.country)

\* z.object({ name: z.string(), qty: z.number().int().positive() })
CartLineOk(line) == line.qty.k = "number" /\ line.qty.n > 0

ContactOk(c) ==
    /\ IsStringMin(c.name, 1)
    /\ IsStringMin(c.phone, 7)
    /\ c.email.k = "undefined" \/ (c.email.k = "string" /\ c.email.s \in WellFormedEmails)

BodyOk(raw) ==
    /\ \A i \in 1..Len(raw.cart) : CartLineOk(raw.cart[i])
    /\ ContactOk(raw.contact)
    /\ IsOptString(raw.pickupTime)
    /\ raw.fulfillment.k = "undefined"
         \/ (raw.fulfillment.k = "string" /\ raw.fulfillment.s \in {"pickup", "delivery"})
    /\ AddressOk(raw.address)
    /\ IsString(raw.paymentToken)

\* CheckoutBody.parse(req.body): the parsed body (unknown keys of a cart line
\* stripped, fulfillment defaulted), or the ZodError it throws
CheckoutBodyParse(raw) ==
    IF BodyOk(raw)
    THEN [ok |-> TRUE, error |-> "",
          body |-> [raw EXCEPT
              !.cart = [i \in 1..Len(raw.cart) |->
                           [name |-> raw.cart[i].name, qty |-> raw.cart[i].qty]],
              !.fulfillment = IF raw.fulfillment.k = "undefined"
                              THEN Str("pickup") ELSE raw.fulfillment]]
    ELSE [ok |-> FALSE, error |-> "ZodError: invalid request body", body |-> raw]

(***************************************************************************)
(* Conversions the handler applies.                                        *)
(***************************************************************************)
Digit(d) ==
    CASE d = 0 -> "0" [] d = 1 -> "1" [] d = 2 -> "2" [] d = 3 -> "3" [] d = 4 -> "4"
      [] d = 5 -> "5" [] d = 6 -> "6" [] d = 7 -> "7" [] d = 8 -> "8" [] d = 9 -> "9"

RECURSIVE Decimal(_)
Decimal(i) == IF i < 10 THEN Digit(i) ELSE Decimal(i \div 10) \o Digit(i % 10)

\* String(x) of a number
StringOf(x) ==
    IF x.k = "number"
    THEN Str(IF x.n < 0 THEN "-" \o Decimal(-x.n) ELSE Decimal(x.n))
    ELSE Str(x.k)

\* what JSON.stringify leaves of a property value: a function or undefined is
\* dropped, NaN becomes null
Json(x) ==
    CASE x.k = "function" -> UNDEF
      [] x.k = "NaN" -> NULL
      [] OTHER -> x

\* a truthy value (body.pickupTime ? ..., body.address.country || 'US')
Truthy(x) ==
    CASE x.k = "string" -> x.s # ""
      [] x.k \in {"number", "fraction"} -> ~(x.k = "number" /\ x.n = 0)
      [] x.k = "function" -> TRUE
      [] OTHER -> FALSE

\* mutant: the tax is truncated, not rounded
RoundPercentTruncated(cents, rate) ==
    IF cents.k = "number" THEN Num((cents.n * rate) \div 100) ELSE NAN

\* Math.round(subtotalCents * (rate / 100)) for integer cents and an integer
\* percentage: the nearest integer, halves up
RoundPercent(cents, rate) ==
    IF cents.k = "number" THEN Num((2 * cents.n * rate + 100) \div 200) ELSE NAN

(***************************************************************************)
(* Order assembly and totals, as the checkout handler computes them.       *)
(***************************************************************************)
\* (body.fulfillment || 'pickup') === 'delivery'
IsDelivery(body) ==
    (IF Truthy(body.fulfillment) THEN body.fulfillment ELSE Str("pickup")) = Str("delivery")

\* line_items: one entry per sanitized line, then the fee line
LineItems(items, isDelivery, fee) ==
    [i \in 1..Len(items) |->
        [name |-> items[i].name, quantity |-> StringOf(items[i].qty),
         amount |-> items[i].priceCents, currency |-> "USD"]]
    \o (IF isDelivery /\ fee > 0
        THEN <<[name |-> "Delivery Fee", quantity |-> Str("1"),
                amount |-> Num(fee), currency |-> "USD"]>>
        ELSE <<>>)

\* orderObj.taxes (<<>> when the property is not set)
Taxes(rate) ==
    IF rate > 0
    THEN <<[name |-> "Sales Tax", type |-> "ADDITIVE", scope |-> "ORDER",
            percentage |-> StringOf(Num(rate))]>>
    ELSE <<>>

\* mutant: the country of an address object is passed on as it came
DeliveryAddressNoDefault(address) ==
    CASE address.k = "string" ->
            [NoAddress EXCEPT !.k = "object", !.address_line_1 = Str(address.s),
                              !.country = Str("US")]
      [] address.k = "object" -> address
      [] OTHER -> NoAddress

\* delivery_address: normalised from free text or an address object; undefined
\* when the body has no address
DeliveryAddress(address) ==
    CASE address.k = "string" ->
            [NoAddress EXCEPT !.k = "object", !.address_line_1 = Str(address.s),
                              !.country = Str("US")]
      [] address.k = "object" ->
            [address EXCEPT !.country = IF Truthy(address.country)
                                        THEN address.country ELSE Str("US")]
      [] OTHER -> NoAddress

Recipient(contact) ==
    [display_name |-> contact.name, phone_number |-> contact.phone,
     email_address |-> contact.email]

NoRecipient == [display_name |-> UNDEF, phone_number |-> UNDEF, email_address |-> UNDEF]

\* the value of a details property the handler leaves undefined
NoDetails ==
    [k |-> "undefined", recipient |-> NoRecipient, schedule_type |-> "",
     pickup_at |-> UNDEF, delivery_address |-> NoAddress]

\* mutant: a pickup is always given the schedule type ASAP
FulfillmentsAlwaysAsap(body, isDelivery) ==
    <<[type |-> IF isDelivery THEN "DELIVERY" ELSE "PICKUP",
       state |-> "PROPOSED",
       pickup_details |->
           IF isDelivery THEN NoDetails
           ELSE [NoDetails EXCEPT
                    !.k = "object",
                    !.recipient = Recipient(body.contact),
                    !.schedule_type = "ASAP",
                    !.pickup_at = body.pickupTime],
       delivery_details |->
           IF isDelivery
           THEN [NoDetails EXCEPT
                    !.k = "object",
                    !.recipient = Recipient(body.contact),
                    !.schedule_type = "ASAP",
                    !.delivery_address = DeliveryAddress(body.address)]
           ELSE NoDetails]>>

\* orderObj.fulfillments
Fulfillments(body, isDelivery) ==
    <<[type |-> IF isDelivery THEN "DELIVERY" ELSE "PICKUP",
       state |-> "PROPOSED",
       pickup_details |->
           IF isDelivery THEN NoDetails
           ELSE [NoDetails EXCEPT
                    !.k = "object",
                    !.recipient = Recipient(body.contact),
                    !.schedule_type = IF Truthy(body.pickupTime) THEN "SCHEDULED" ELSE "ASAP",
                    !.pickup_at = body.pickupTime],
       delivery_details |->
           IF isDelivery
           THEN [NoDetails EXCEPT
                    !.k = "object",
                    !.recipient = Recipient(body.contact),
                    !.schedule_type = "ASAP",
                    !.delivery_address = DeliveryAddress(body.address)]
           ELSE NoDetails]>>

\* orderObj, as JSON.stringify puts it on the wire
OrderObj(body, items, rate, fee) ==
    LET isDelivery == IsDelivery(body)
        line_items == LineItems(items, isDelivery, fee) IN
    [line_items |-> [i \in 1..Len(line_items) |->
                        [line_items[i] EXCEPT !.amount = Json(line_items[i].amount)]],
     taxes |-> Taxes(rate),
     fulfillments |-> Fulfillments(body, isDelivery)]

\* subtotalCents, taxCents, totalCents
SubtotalCents(items, isDelivery, fee) ==
    Add(sumCents(items), Num(IF isDelivery THEN fee ELSE 0))
TaxCents(subtotalCents, rate) ==
    IF rate > 0 THEN RoundPercent(subtotalCents, rate) ELSE Num(0)
TotalCents(items, isDelivery, rate, fee) ==
    LET subtotalCents == SubtotalCents(items, isDelivery, fee) IN
    Add(subtotalCents, TaxCents(subtotalCents, rate))

(***************************************************************************)
(* The remote service's replies.  A reply is                               *)
(*   settled = "rejected"     fetch rejects (network failure),             *)
(*   settled = "unparsable"   the response body is not JSON,               *)
(*   settled = "response"     a JSON response: ok is the HTTP status class,*)
(*       detail is errors?.[0]?.detail, entity says whether the body has   *)
(*       an order (payment) object, and id is that object's id.            *)
(***************************************************************************)
Reply(settled, ok, detail, entity, id) ==
    [settled |-> settled, ok |-> ok, detail |-> detail, entity |-> entity, id |-> id]

\* the remote service gives the order of each request an id of its own
OrderIds(r) == {"order-" \o Decimal(r)}
PaymentIds == {"payment-1"}

RepliesWith(ids) ==
    { Reply("rejected", FALSE, UNDEF, FALSE, UNDEF),
      Reply("unparsable", TRUE, UNDEF, FALSE, UNDEF),
      Reply("response", FALSE, Str("provider detail"), FALSE, UNDEF),
      Reply("response", FALSE, UNDEF, FALSE, UNDEF),
      Reply("response", TRUE, UNDEF, FALSE, UNDEF),
      Reply("response", TRUE, UNDEF, TRUE, UNDEF) }
    \cup { Reply("response", TRUE, UNDEF, TRUE, Str(id)) : id \in ids }

\* the replies concurrent requests get: a refusal, or success with an id
ConcurrentReplies(ids) ==
    { Reply("response", FALSE, Str("provider detail"), FALSE, UNDEF) }
    \cup { Reply("response", TRUE, UNDEF, TRUE, Str(id)) : id \in ids }

\* the exception `await fetch(...)` / `await resp.json()` raise, "" when none
TransportError(reply) ==
    CASE reply.settled = "rejected" -> "fetch failed"
      [] reply.settled = "unparsable" -> "Unexpected token < in JSON"
      [] OTHER -> ""

\* x || fallback on a message
OrElse(x, fallback) == IF Truthy(x) THEN x.s ELSE fallback

(***************************************************************************)
(* Request bodies the model submits.                                       *)
(***************************************************************************)
Contact(name, phone, email) == [name |-> name, phone |-> phone, email |-> email]
Ann == Contact(Str("Ann"), Str("7165550100"), UNDEF)

Body(cart, contact, pickupTime, fulfillment, address, paymentToken) ==
    [cart |-> cart, contact |-> contact, pickupTime |-> pickupTime,
     fulfillment |-> fulfillment, address |-> address, paymentToken |-> paymentToken]

NoBody == Body(<<>>, Contact(UNDEF, UNDEF, UNDEF), UNDEF, UNDEF, NoAddress, UNDEF)

\* all carts of at most n lines drawn from a set of lines
CartsOf(lines, n) == UNION { [1..k -> lines] : k \in 0..n }

CartNames == {"Small Fries", "Soda Can", "Unicorn Combo", "toString"}

\* one request at a time: every cart with every well-formed fulfillment, and
\* on one cart the other values each field of the body may take
Line(name, qty) == [name |-> name, qty |-> qty, priceCents |-> UNDEF]
Lines ==
    { Line("Small Fries", Num(1)), Line("Small Fries", Num(2)), Line("Soda Can", Num(1)),
      [Line("Soda Can", Num(1)) EXCEPT !.priceCents = Num(1)],
      Line("Unicorn Combo", Num(1)), Line("toString", Num(1)) }

Addresses ==
    { NoAddress, TextAddress("123 Main St"),
      ObjectAddress(Str("9 Elm St"), Str("Buffalo"), UNDEF),
      ObjectAddress(Str("9 Elm St"), UNDEF, Str("CA")) }

PickupTime == Str("2026-01-01T12:00:00Z")
FriesTwice == Body(<<Line("Small Fries", Num(2))>>, Ann, UNDEF, UNDEF, NoAddress,
                   Str("cnon:card-1"))

Bodies ==
    { [FriesTwice EXCEPT !.cart = cart, !.pickupTime = pickupTime] :
        cart \in CartsOf(Lines, MaxCart), pickupTime \in {UNDEF, PickupTime} }
    \cup
    { [FriesTwice EXCEPT !.cart = cart, !.fulfillment = Str("delivery"), !.address = address] :
        cart \in CartsOf(Lines, MaxCart), address \in Addresses }
    \cup
    { [FriesTwice EXCEPT !.cart[1].qty = qty, !.cart[1].priceCents = Num(1)] :
        qty \in {Num(2), Num(0), Num(-1), Frac(1), UNDEF} }
    \cup
    { [FriesTwice EXCEPT !.contact = contact] :
        contact \in { Contact(Str("Ann"), Str("7165550100"), Str("ann@example.com")),
                      Contact(Str("Ann"), Str("7165550100"), Str("ann at example")),
                      Contact(Str(""), Str("7165550100"), UNDEF),
                      Contact(Str("Ann"), Str("555"), UNDEF) } }
    \cup
    { [FriesTwice EXCEPT !.pickupTime = pickupTime, !.fulfillment = fulfillment] :
        pickupTime \in {UNDEF, PickupTime, Str(""), Num(1200)},
        fulfillment \in {Str("pickup"), Str("delivery"), Str("drone")} }
    \cup
    { [FriesTwice EXCEPT !.fulfillment = fulfillment, !.address = address] :
        fulfillment \in {UNDEF, Str("delivery")},
        address \in { TextAddress("123 Main St"), TextAddress(""),
                      ObjectAddress(Str(""), UNDEF, UNDEF),
                      ObjectAddress(Str("9 Elm St"), UNDEF, Str("")) } }
    \cup
    { [FriesTwice EXCEPT !.paymentToken = paymentToken] : paymentToken \in {Str(""), UNDEF} }

\* concurrent requests: well-formed pickup bodies whose full cart alternates two
\* items, starting with either; the two differ in quantity and payment token too
ConcurrentBodies ==
    { Body([i \in 1..MaxCart |->
               Line(IF i % 2 = first THEN "Small Fries" ELSE "Soda Can", Num(1 + first))],
           Ann, UNDEF, UNDEF, NoAddress, Str("cnon:card-" \o Decimal(1 + first))) :
        first \in {0, 1} }

\* process.env.TAX_RATE_PERCENT and process.env.DELIVERY_FEE_CENTS, as numbers
TaxRates == {0, 5, 8}
DeliveryFees == {0, 300, -50}

(***************************************************************************)
(* The checkout handler.  It runs to its first await in one step, and      *)
(* resumes when the order call and then the payment call settle.  Each     *)
(* stage gives the request's next state, the remote calls it issues and    *)
(* the responses it sends.                                                 *)
(***************************************************************************)
\* A request's state: pc is where its handler stands ("new": not yet arrived,
\* "order" / "pay": awaiting that call, "done": responded); raw is req.body; body,
\* items, orderResp, orderId and payResp are the handler's variables of those names
\* (orderResp and payResp hold the reply as fetch and json() gave it); stages
\* lists, in the order the handler reached them, the points of its code it has
\* passed:
\*   "Received"        the handler is entered (line 237)
\*   "Sanitized"       sanitizeCart returned (line 239)
\*   "OrderAssembled"  orderObj is complete (line 310)
\*   "OrderCreated"    orderResp.ok passed (line 322)
\*   "Totaled"         totalCents is computed (line 326)
\*   "PaymentCaptured" payResp.ok passed (line 342)
\*   "Succeeded"       the success response is sent (line 344)
\*   "Failed"          the catch block has sent the failure response (line 347)
\* silent says that the call the handler awaits will never settle.
NoReply == Reply("pending", FALSE, UNDEF, FALSE, UNDEF)

NewRequest ==
    [pc |-> "new", raw |-> NoBody, body |-> NoBody, items |-> <<>>,
     orderResp |-> NoReply, orderId |-> UNDEF, payResp |-> NoReply, stages |-> <<>>,
     silent |-> FALSE]

Stage(request, issued, responses) ==
    [req |-> request, calls |-> issued, sent |-> responses]

\* catch (e): res.status(400).json({ success: false, error: e.message || 'Checkout failed' })
Caught(request, message) ==
    Stage([request EXCEPT !.pc = "done", !.stages = @ \o <<"Failed">>], <<>>,
          <<[status |-> 400, success |-> FALSE, orderId |-> UNDEF, paymentId |-> UNDEF,
             error |-> IF message # "" THEN message ELSE "Checkout failed"]>>)

OrderCall(key, order) == [api |-> "orders", idempotency_key |-> key, order |-> order]

PaymentCall(key, token, totalCents, orderId) ==
    [api |-> "payments", idempotency_key |-> key, source_id |-> token,
     amount |-> Json(totalCents), order_id |-> Json(orderId)]

\* mutant: the order is submitted before the cart is sanitized
CheckoutReceivedOrderFirst(request, raw, book, rate, fee, uuid) ==
    LET parsed == CheckoutBodyParse(raw)
        sane == sanitizeCart(book, parsed.body.cart)
        arrived == [request EXCEPT !.raw = raw, !.stages = <<"Received">>] IN
    IF ~parsed.ok THEN Caught(arrived, parsed.error)
    ELSE IF ~sane.ok
         THEN [Caught([arrived EXCEPT !.body = parsed.body], sane.error) EXCEPT
                  !.calls = <<OrderCall(uuid, OrderObj(parsed.body, <<>>, rate, fee))>>]
    ELSE Stage([arrived EXCEPT !.pc = "order", !.body = parsed.body, !.items = sane.items,
                               !.stages = @ \o <<"Sanitized", "OrderAssembled">>],
               <<OrderCall(uuid, OrderObj(parsed.body, sane.items, rate, fee))>>,
               <<>>)

\* from CheckoutBody.parse to the fetch of /v2/orders
CheckoutReceived(request, raw, book, rate, fee, uuid) ==
    LET parsed == CheckoutBodyParse(raw)
        sane == sanitizeCart(book, parsed.body.cart)
        arrived == [request EXCEPT !.raw = raw, !.stages = <<"Received">>] IN
    IF ~parsed.ok THEN Caught(arrived, parsed.error)
    ELSE IF ~sane.ok THEN Caught([arrived EXCEPT !.body = parsed.body], sane.error)
    ELSE Stage([arrived EXCEPT !.pc = "order", !.body = parsed.body, !.items = sane.items,
                               !.stages = @ \o <<"Sanitized", "OrderAssembled">>],
               <<OrderCall(uuid, OrderObj(parsed.body, sane.items, rate, fee))>>,
               <<>>)

\* mutant: orderResp.ok is not looked at
OrderSettledUnchecked(request, reply, rate, fee, uuid) ==
    LET settled == [request EXCEPT !.orderResp = reply] IN
    IF TransportError(reply) # "" THEN Caught(settled, TransportError(reply))
    ELSE Stage([settled EXCEPT !.pc = "pay", !.orderId = reply.id,
                               !.stages = @ \o <<"OrderCreated", "Totaled">>],
               <<PaymentCall(uuid, request.body.paymentToken,
                             TotalCents(request.items, IsDelivery(request.body), rate, fee),
                             reply.id)>>,
               <<>>)

\* mutant: an order call that fails for the first time is issued again, with a
\* fresh key
OrderSettledRetries(request, reply, rate, fee, uuid) ==
    LET settled == [request EXCEPT !.orderResp = reply]
        failed == TransportError(reply) # "" \/ ~reply.ok IN
    IF failed /\ request.orderResp = NoReply
    THEN Stage(settled,
               <<OrderCall(uuid, OrderObj(request.body, request.items, rate, fee))>>, <<>>)
    ELSE IF TransportError(reply) # "" THEN Caught(settled, TransportError(reply))
    ELSE IF ~reply.ok
         THEN Caught(settled, OrElse(reply.detail, "Square createOrder failed"))
    ELSE IF ~reply.entity
         THEN Caught([settled EXCEPT !.stages = @ \o <<"OrderCreated">>],
                     "Cannot read properties of undefined (reading 'id')")
    ELSE Stage([settled EXCEPT !.pc = "pay", !.orderId = reply.id,
                               !.stages = @ \o <<"OrderCreated", "Totaled">>],
               <<PaymentCall(uuid, request.body.paymentToken,
                             TotalCents(request.items, IsDelivery(request.body), rate, fee),
                             reply.id)>>,
               <<>>)

\* from the settling of the order call to the fetch of /v2/payments
OrderSettled(request, reply, rate, fee, uuid) ==
    LET settled == [request EXCEPT !.orderResp = reply] IN
    IF TransportError(reply) # "" THEN Caught(settled, TransportError(reply))
    ELSE IF ~reply.ok
         THEN Caught(settled, OrElse(reply.detail, "Square createOrder failed"))
    ELSE IF ~reply.entity
         THEN Caught([settled EXCEPT !.stages = @ \o <<"OrderCreated">>],
                     "Cannot read properties of undefined (reading 'id')")
    ELSE Stage([settled EXCEPT !.pc = "pay", !.orderId = reply.id,
                               !.stages = @ \o <<"OrderCreated", "Totaled">>],
               <<PaymentCall(uuid, request.body.paymentToken,
                             TotalCents(request.items, IsDelivery(request.body), rate, fee),
                             reply.id)>>,
               <<>>)

\* mutant: the failure response of a refused payment carries the order id
PaymentSettledLeaksOrder(request, reply) ==
    LET settled == [request EXCEPT !.payResp = reply]
        failure == Caught(settled, OrElse(reply.detail, "Square createPayment failed")) IN
    IF TransportError(reply) # "" THEN Caught(settled, TransportError(reply))
    ELSE IF ~reply.ok
         THEN [failure EXCEPT !.sent[1].orderId = Json(request.orderId)]
    ELSE Stage([settled EXCEPT !.pc = "done",
                               !.stages = @ \o <<"PaymentCaptured", "Succeeded">>], <<>>,
               <<[status |-> 200, success |-> TRUE, orderId |-> Json(request.orderId),
                  paymentId |-> Json(IF reply.entity THEN reply.id ELSE UNDEF),
                  error |-> ""]>>)

\* mutant: a refused payment is answered without leaving the handler, which goes
\* on to the success response
PaymentSettledFallsThrough(request, reply) ==
    LET settled == [request EXCEPT !.payResp = reply]
        failure == Caught(settled, OrElse(reply.detail, "Square createPayment failed"))
        success == [status |-> 200, success |-> TRUE, orderId |-> Json(request.orderId),
                    paymentId |-> Json(IF reply.entity THEN reply.id ELSE UNDEF),
                    error |-> ""] IN
    IF TransportError(reply) # "" THEN Caught(settled, TransportError(reply))
    ELSE IF ~reply.ok
         THEN [failure EXCEPT !.req.stages = @ \o <<"PaymentCaptured", "Succeeded">>,
                              !.sent = @ \o <<success>>]
    ELSE Stage([settled EXCEPT !.pc = "done",
                               !.stages = @ \o <<"PaymentCaptured", "Succeeded">>], <<>>,
               <<success>>)

\* from the settling of the payment call to the response
PaymentSettled(request, reply) ==
    LET settled == [request EXCEPT !.payResp = reply] IN
    IF TransportError(reply) # "" THEN Caught(settled, TransportError(reply))
    ELSE IF ~reply.ok
         THEN Caught(settled, OrElse(reply.detail, "Square createPayment failed"))
    ELSE Stage([settled EXCEPT !.pc = "done",
                               !.stages = @ \o <<"PaymentCaptured", "Succeeded">>], <<>>,
               <<[status |-> 200, success |-> TRUE, orderId |-> Json(request.orderId),
                  paymentId |-> Json(IF reply.entity THEN reply.id ELSE UNDEF),
                  error |-> ""]>>)

(***************************************************************************)
(* State.                                                                  *)
(***************************************************************************)
VARIABLES
    PRICE_BOOK,          \* the live price table
    watching,            \* data/prices.json existed at start: fs.watch is installed
    reloads,             \* reloads so far (bounded by MaxReload)
    TAX_RATE_PERCENT,    \* Number(process.env.TAX_RATE_PERCENT ?? 8.0)
    DELIVERY_FEE_CENTS,  \* Number(process.env.DELIVERY_FEE_CENTS ?? 0)
    req,                 \* each checkout request: where its handler stands, its closure
    calls,               \* each request's remote calls, in the order issued
    sent,                \* each request's responses, in the order sent
    uuids,               \* number of crypto.randomUUID() values drawn so far
    trial,               \* a cart given to sanitizeCart directly, and what came of it
    store                \* cart.js: the cart kept in localStorage under LS_KEY

vars == <<PRICE_BOOK, watching, reloads, TAX_RATE_PERCENT, DELIVERY_FEE_CENTS,
          req, calls, sent, uuids, trial, store>>

\* no cart is on trial
NoTrial == [step |-> "none", cart |-> <<>>, schema |-> FALSE, result |-> Returned(<<>>)]

Requests == 1..MaxReq

\* mutant: a key made once and handed out again
repeatedUUID == IF uuids = 0 THEN uuids + 1 ELSE uuids

\* crypto.randomUUID(): a value no earlier call returned
randomUUID == uuids + 1

\* module load: the default table, replaced by data/prices.json when that file
\* exists (and parses to an object); the watcher is installed only then
InitWith(files, rates, fees) ==
    /\ watching \in BOOLEAN
    /\ PRICE_BOOK \in IF watching
                      THEN { loadPriceBookFromFile(defaultPriceBook, f) : f \in files }
                      ELSE { defaultPriceBook }
    /\ reloads = 0
    /\ TAX_RATE_PERCENT \in rates
    /\ DELIVERY_FEE_CENTS \in fees
    /\ req = [r \in Requests |-> NewRequest]
    /\ calls = [r \in Requests |-> <<>>]
    /\ sent = [r \in Requests |-> <<>>]
    /\ uuids = 0

\* no cart is given to sanitizeCart directly, and the browser's cart is empty
NoClient == trial = NoTrial /\ store = <<>>

\* the handler's stage `stage` run for request r
Run(r, stage, drawn) ==
    /\ req' = [req EXCEPT ![r] = stage.req]
    /\ calls' = [calls EXCEPT ![r] = @ \o stage.calls]
    /\ sent' = [sent EXCEPT ![r] = @ \o stage.sent]
    /\ uuids' = IF stage.calls # <<>> THEN uuids + drawn ELSE uuids
    /\ UNCHANGED <<PRICE_BOOK, watching, reloads, TAX_RATE_PERCENT, DELIVERY_FEE_CENTS,
                   trial, store>>

\* POST /api/checkout arrives for request r with one of the bodies
Checkout(r, bodies) ==
    /\ req[r].pc = "new"
    /\ \E raw \in bodies :
          Run(r, CheckoutReceived(req[r], raw, PRICE_BOOK, TAX_RATE_PERCENT,
                                  DELIVERY_FEE_CENTS, randomUUID), 1)

\* mutant: items is a variable of the module, not of the handler: the handler
\* resumes with the lines the request that arrived last has put there
OrderReturnsSharedItems(r, replies) ==
    LET others == { q \in Requests : q # r /\ req[q].pc # "new" /\ req[q].items # <<>> }
        last == IF others = {} THEN r ELSE CHOOSE q \in others : TRUE IN
    /\ req[r].pc = "order"
    /\ ~req[r].silent
    /\ \E reply \in replies :
          Run(r, [OrderSettled([req[r] EXCEPT !.items = req[last].items], reply,
                               TAX_RATE_PERCENT, DELIVERY_FEE_CENTS, randomUUID)
                     EXCEPT !.req.items = req[r].items], 1)

\* mutant: the handler prices the cart again, from the table as it is now, when it
\* computes the totals
OrderReturnsRepriced(r, replies) ==
    LET again == sanitizeCart(PRICE_BOOK, req[r].body.cart)
        items == IF again.ok THEN again.items ELSE req[r].items IN
    /\ req[r].pc = "order"
    /\ ~req[r].silent
    /\ \E reply \in replies :
          Run(r, [OrderSettled([req[r] EXCEPT !.items = items], reply,
                               TAX_RATE_PERCENT, DELIVERY_FEE_CENTS, randomUUID)
                     EXCEPT !.req.items = req[r].items], 1)

\* the order call of request r settles with one of the replies
OrderReturns(r, replies) ==
    /\ req[r].pc = "order"
    /\ ~req[r].silent
    /\ \E reply \in replies :
          Run(r, OrderSettled(req[r], reply, TAX_RATE_PERCENT, DELIVERY_FEE_CENTS,
                              randomUUID), 1)

\* the payment call of request r settles with one of the replies
PaymentReturns(r, replies) ==
    /\ req[r].pc = "pay"
    /\ ~req[r].silent
    /\ \E reply \in replies : Run(r, PaymentSettled(req[r], reply), 0)

\* the watcher's timer fires: loadPriceBookFromFile() on the file as it is now
Reload(file) ==
    /\ watching
    /\ reloads < MaxReload
    /\ PRICE_BOOK' = loadPriceBookFromFile(PRICE_BOOK, file)
    /\ reloads' = reloads + 1
    /\ UNCHANGED <<watching, TAX_RATE_PERCENT, DELIVERY_FEE_CENTS, req, calls, sent, uuids,
                   trial, store>>

\* the remote service never answers the call request r awaits (it accepts the
\* connection and sends nothing, or a body without end): the fetch is made
\* without a signal or a timer, so nothing in the handler ends the wait
RemoteSilent(r) ==
    /\ req[r].pc \in {"order", "pay"}
    /\ ~req[r].silent
    /\ req' = [req EXCEPT ![r].silent = TRUE]
    /\ UNCHANGED <<PRICE_BOOK, watching, reloads, TAX_RATE_PERCENT, DELIVERY_FEE_CENTS,
                   calls, sent, uuids, trial, store>>

\* the server under concurrent requests
Init == InitWith(ConcurrentPriceFiles, {8}, {300}) /\ NoClient

Next ==
    \/ \E r \in Requests : Checkout(r, ConcurrentBodies)
    \/ \E r \in Requests : OrderReturns(r, ConcurrentReplies(OrderIds(r)))
    \/ \E r \in Requests : PaymentReturns(r, ConcurrentReplies(PaymentIds))
    \/ \E file \in ConcurrentPriceFiles : Reload(file)

Spec == Init /\ [][Next]_vars

\* the server handling one request, over every body, configuration and table
\* modelled, with no reload while the request is in flight
InitOne == InitWith(PriceFiles, TaxRates, DeliveryFees) /\ NoClient

NextOne ==
    \/ Checkout(1, Bodies)
    \/ OrderReturns(1, RepliesWith(OrderIds(1)))
    \/ PaymentReturns(1, RepliesWith(PaymentIds))

SpecOne == InitOne /\ [][NextOne]_vars

\* sanitizeCart on its own: every cart of the lines below, among them quantities
\* that are zero, negative, not an integer or missing, against every table; schema
\* records whether CheckoutBody.parse lets a body with that cart through
TrialQuantities == {Num(1), Num(0), Num(-1), Frac(1), UNDEF}
TrialLines ==
    { Line(name, qty) : name \in {"Small Fries", "Unicorn Combo"}, qty \in TrialQuantities }

InitSanitize ==
    /\ InitWith(PriceFiles, {8}, {0})
    /\ trial \in { [NoTrial EXCEPT !.step = "ready", !.cart = cart] :
                     cart \in CartsOf(TrialLines, MaxCart) }
    /\ store = <<>>

\* const body = CheckoutBody.parse(...) on a body with the cart; sanitizeCart(cart)
SanitizeTrial ==
    /\ trial.step = "ready"
    /\ trial' = [trial EXCEPT
                    !.step = "done",
                    !.schema = CheckoutBodyParse([FriesTwice EXCEPT !.cart = trial.cart]).ok,
                    !.result = sanitizeCart(PRICE_BOOK, trial.cart)]
    /\ UNCHANGED <<PRICE_BOOK, watching, reloads, TAX_RATE_PERCENT, DELIVERY_FEE_CENTS,
                   req, calls, sent, uuids, store>>

NextSanitize == SanitizeTrial

SpecSanitize == InitSanitize /\ [][NextSanitize]_vars

\* the server handling one request while data/prices.json changes between the
\* order call and the payment call: the watcher's timer fires while the handler
\* awaits the order call
ReloadLines ==
    { Line("Small Fries", Num(2)), Line("Soda Can", Num(1)), Line("toString", Num(1)) }

ReloadBodies ==
    { [FriesTwice EXCEPT !.cart = cart, !.fulfillment = fulfillment,
                         !.address = TextAddress("123 Main St")] :
        cart \in CartsOf(ReloadLines, MaxCart), fulfillment \in {UNDEF, Str("delivery")} }

ReloadInFlight(file) == req[1].pc = "order" /\ Reload(file)

InitReload == InitWith(PriceFiles, TaxRates, DeliveryFees) /\ NoClient

NextReload ==
    \/ Checkout(1, ReloadBodies)
    \/ OrderReturns(1, ConcurrentReplies(OrderIds(1)))
    \/ PaymentReturns(1, ConcurrentReplies(PaymentIds))
    \/ \E file \in PriceFiles : ReloadInFlight(file)

SpecReload == InitReload /\ [][NextReload]_vars

(***************************************************************************)
(* cart.js: the browser's cart, kept in localStorage.  store is the value  *)
(* under LS_KEY as JSON.parse gives it back: a sequence of lines           *)
(* [name, priceCents, qty].                                                *)
(***************************************************************************)
\* a string given as a quantity, as the sequence of its characters
Text(chars) == [k |-> "text", n |-> 0, s |-> "", c |-> chars]

\* !x for a quantity argument
Falsy(x) ==
    \/ x.k \in {"undefined", "null", "NaN"}
    \/ x.k = "number" /\ x.n = 0
    \/ x.k = "text" /\ x.c = <<>>

DigitValue(ch) ==
    CASE ch = "0" -> 0 [] ch = "1" -> 1 [] ch = "2" -> 2 [] ch = "3" -> 3 [] ch = "4" -> 4
      [] ch = "5" -> 5 [] ch = "6" -> 6 [] ch = "7" -> 7 [] ch = "8" -> 8 [] ch = "9" -> 9
      [] OTHER -> -1

\* the digits of chars from position i on, up to the first character that is not
\* a digit: NaN when there is none, else their value
RECURSIVE Digits(_, _, _, _)
Digits(chars, i, seen, acc) ==
    IF i <= Len(chars) /\ DigitValue(chars[i]) >= 0
    THEN Digits(chars, i + 1, TRUE, 10 * acc + DigitValue(chars[i]))
    ELSE IF seen THEN Num(acc) ELSE NAN

RECURSIVE SkipBlanks(_, _)
SkipBlanks(chars, i) ==
    IF i <= Len(chars) /\ chars[i] = " " THEN SkipBlanks(chars, i + 1) ELSE i

\* parseInt(x, 10): a number is converted to its decimal string first, which
\* leaves an integer as it is and cuts n + 1/2 to n; of a string, leading blanks
\* are skipped, a sign is taken, and the digits that follow are read
parseInt(x) ==
    CASE x.k = "number" -> x
      [] x.k = "fraction" -> Num(x.n)
      [] x.k = "text" ->
            LET i == SkipBlanks(x.c, 1)
                signed == i <= Len(x.c) /\ x.c[i] \in {"-", "+"}
                digits == Digits(x.c, IF signed THEN i + 1 ELSE i, FALSE, 0) IN
            IF digits.k = "number" /\ signed /\ x.c[i] = "-" THEN Num(-digits.n) ELSE digits
      [] OTHER -> NAN

\* Math.max(1, x)
MathMax1(x) == IF x.k # "number" THEN NAN ELSE IF x.n > 1 THEN x ELSE Num(1)

\* qty = Math.max(1, parseInt(qty || "1", 10))
Coerce(qty) == MathMax1(parseInt(IF Falsy(qty) THEN Text(<<"1">>) ELSE qty))

\* existing.qty += qty, where existing.qty came out of JSON.parse (null counts 0)
PlusEq(old, qty) ==
    IF qty.k # "number" \/ old.k \notin {"number", "null"} THEN NAN
    ELSE Num((IF old.k = "null" THEN 0 ELSE old.n) + qty.n)

\* write(cart): what JSON.stringify and a later JSON.parse leave of the cart
write(cart) == [i \in DOMAIN cart |-> [cart[i] EXCEPT !.qty = Json(@)]]

\* the server's part of the state, which the browser's cart does not touch
server == <<PRICE_BOOK, watching, reloads, TAX_RATE_PERCENT, DELIVERY_FEE_CENTS,
            req, calls, sent, uuids, trial>>

\* the calls the pages make: items of the menu, quantities of every kind, indexes
\* inside and outside the cart
MenuItems == {"Small Fries", "Soda Can", "Water Bottle"}
QtyArgs ==
    { Num(1), Num(2), Num(0), Num(-1), Frac(2), UNDEF, NULL,
      Text(<<"2">>), Text(<<" ", "2">>), Text(<<"2", "x">>), Text(<<"-", "4">>),
      Text(<<>>), Text(<<"a", "b", "c">>) }
Indexes == -1..Cardinality(MenuItems)

\* quantities stay within the bound
Within(cart) == \A i \in DOMAIN cart : cart[i].qty.k = "number" => cart[i].qty.n <= MaxQty

\* mutant: the line is pushed without looking for one of the same name
addItemAlwaysPushes(name, priceCents, qtyArg) ==
    LET qty == Coerce(IF qtyArg.k = "undefined" THEN Num(1) ELSE qtyArg)
        after == Append(store, [name |-> name, priceCents |-> priceCents, qty |-> qty]) IN
    /\ Len(after) <= Cardinality(MenuItems) + 1
    /\ Within(after)
    /\ store' = write(after)
    /\ UNCHANGED server

\* addItem(name, priceCents, qty = 1)
addItem(name, priceCents, qtyArg) ==
    LET qty == Coerce(IF qtyArg.k = "undefined" THEN Num(1) ELSE qtyArg)
        cart == store
        found == { i \in DOMAIN cart : cart[i].name = name }
        existing == CHOOSE i \in found : \A j \in found : i <= j
        after == IF found # {}
                 THEN [cart EXCEPT ![existing].qty = PlusEq(@, qty)]
                 ELSE Append(cart, [name |-> name, priceCents |-> priceCents, qty |-> qty]) IN
    /\ Within(after)
    /\ store' = write(after)
    /\ UNCHANGED server

\* removeItem(index): cart.splice(index, 1), a negative index counting from the end
removeItem(index) ==
    LET cart == store
        start == IF index < 0 THEN (IF Len(cart) + index < 0 THEN 0 ELSE Len(cart) + index)
                 ELSE index
        after == [i \in 1..(IF start < Len(cart) THEN Len(cart) - 1 ELSE Len(cart)) |->
                     IF i <= start THEN cart[i] ELSE cart[i + 1]] IN
    /\ store' = write(after)
    /\ UNCHANGED server

\* setQty(index, qty)
setQty(index, qtyArg) ==
    LET qty == Coerce(qtyArg)
        cart == store
        after == [cart EXCEPT ![index + 1].qty = qty] IN
    /\ index + 1 \in DOMAIN cart
    /\ Within(after)
    /\ store' = write(after)
    /\ UNCHANGED server

\* clearCart()
clearCart ==
    /\ store' = write(<<>>)
    /\ UNCHANGED server

InitCart == InitWith({}, {8}, {0}) /\ trial = NoTrial /\ store = <<>>

NextCart ==
    \/ \E name \in MenuItems, qty \in QtyArgs :
          addItem(name, defaultPriceBook[name], qty)
    \/ \E index \in Indexes : removeItem(index)
    \/ \E index \in Indexes, qty \in QtyArgs : setQty(index, qty)
    \/ clearCart

SpecCart == InitCart /\ [][NextCart]_vars

\* the server under concurrent requests and a remote service that may stay
\* silent.  The event loop resumes a handler whose awaited call has settled, and
\* a remote service that has not gone silent does settle it: each request's
\* continuation is weakly fair.  Nothing obliges a client to send a request, nor
\* the remote service to go silent.
NextLive ==
    \/ \E r \in Requests : Checkout(r, ConcurrentBodies)
    \/ \E r \in Requests : OrderReturns(r, ConcurrentReplies(OrderIds(r)))
    \/ \E r \in Requests : PaymentReturns(r, ConcurrentReplies(PaymentIds))
    \/ \E r \in Requests : RemoteSilent(r)

Fairness ==
    \A r \in Requests :
        /\ WF_vars(OrderReturns(r, ConcurrentReplies(OrderIds(r))))
        /\ WF_vars(PaymentReturns(r, ConcurrentReplies(PaymentIds)))

SpecLive == Init /\ [][NextLive]_vars /\ Fairness

(***************************************************************************)
(* Properties.                                                             *)
(***************************************************************************)
\* positions of the calls to `api` among the remote calls of request r
CallsTo(r, api) == { i \in DOMAIN calls[r] : calls[r][i].api = api }

\* the order call of request r has settled with an HTTP success
OrderSucceeded(r) == req[r].orderResp.settled = "response" /\ req[r].orderResp.ok

\* the order call of request r has settled otherwise: rejected, unparsable or refused
OrderFailed(r) == req[r].orderResp # NoReply /\ ~OrderSucceeded(r)

\* C1: a request's payment call is issued only after its order call, and only
\* once that call has returned success; a request whose order call failed has
\* made no payment call.
C1_PaymentOnlyAfterOrderSuccess ==
    \A r \in Requests :
        /\ \A i \in CallsTo(r, "payments") :
              /\ OrderSucceeded(r)
              /\ \E j \in CallsTo(r, "orders") : j < i
        /\ OrderFailed(r) => CallsTo(r, "payments") = {}

C1_Witness ==
    \E r \in Requests :
        /\ OrderSucceeded(r)
        /\ Len(calls[r]) = 2
        /\ calls[r][1].api = "orders"
        /\ calls[r][2].api = "payments"

\* the name is a key of the table and the table holds a price for it
HasPrice(book, name) == name \in DOMAIN book /\ ~IsNullish(book[name])

\* C2: when the body is well-formed (every quantity a positive integer) and every
\* item name has a price in the price table, sanitizeCart succeeds and gives one
\* line per cart line, in order, with the line's name and quantity and the
\* table's price for the name, whatever unit price the client sent.  (No reload
\* happens under SpecOne: PRICE_BOOK is the table sanitizeCart read.)
C2_SanitizePricesFromTable ==
    \A r \in Requests :
        ( /\ req[r].pc # "new"
          /\ BodyOk(req[r].raw)
          /\ \A i \in DOMAIN req[r].raw.cart : HasPrice(PRICE_BOOK, req[r].raw.cart[i].name) )
        => /\ Len(calls[r]) >= 1
           /\ Len(req[r].items) = Len(req[r].raw.cart)
           /\ \A i \in DOMAIN req[r].raw.cart :
                 req[r].items[i] = [name |-> req[r].raw.cart[i].name,
                                    qty |-> req[r].raw.cart[i].qty,
                                    priceCents |-> PRICE_BOOK[req[r].raw.cart[i].name]]

C2_Witness ==
    \E r \in Requests :
        /\ PRICE_BOOK = RepricedBook
        /\ Len(req[r].raw.cart) = 2
        /\ req[r].raw.cart[1] = Line("Small Fries", Num(2))
        /\ req[r].raw.cart[2].name = "Soda Can"
        /\ req[r].raw.cart[2].priceCents = Num(1)
        /\ req[r].items = <<[name |-> "Small Fries", qty |-> Num(2), priceCents |-> Num(349)],
                            [name |-> "Soda Can", qty |-> Num(1), priceCents |-> Num(175)]>>

\* C3: a well-formed request whose cart holds a name that is not a key of the
\* price table is refused with "Unknown item", and no line is priced.
C3_UnknownNameRefused ==
    \A r \in Requests :
        ( /\ req[r].pc # "new"
          /\ BodyOk(req[r].raw)
          /\ \E i \in DOMAIN req[r].raw.cart : req[r].raw.cart[i].name \notin DOMAIN PRICE_BOOK )
        => /\ req[r].items = <<>>
           /\ Len(sent[r]) = 1
           /\ sent[r][1].error \in { "Unknown item: " \o name : name \in CartNames }

\* the request was refused by CheckoutBody.parse or by sanitizeCart
FailedValidation(r) ==
    /\ req[r].pc # "new"
    /\ \/ ~BodyOk(req[r].raw)
       \/ ~sanitizeCart(PRICE_BOOK, CheckoutBodyParse(req[r].raw).body.cart).ok

\* C4: a request that fails the schema or the cart sanitization makes no remote
\* call, and the failure is its (only) response.
C4_ValidationFailsBeforeRemote ==
    \A r \in Requests :
        FailedValidation(r)
        => /\ calls[r] = <<>>
           /\ req[r].pc = "done"
           /\ Len(sent[r]) = 1
           /\ sent[r][1].status = 400
           /\ ~sent[r][1].success
           /\ sent[r][1].error # ""

C4_Witness ==
    \E r \in Requests :
        /\ FailedValidation(r)
        /\ BodyOk(req[r].raw)
        /\ sent[r][1].error = "Unknown item: Unicorn Combo"
        /\ calls[r] = <<>>

\* C5: no order document of a delivery order is submitted without a delivery
\* address.
C5_NoDeliveryOrderWithoutAddress ==
    \A r \in Requests :
        \A i \in CallsTo(r, "orders") :
            calls[r][i].order.fulfillments[1].type = "DELIVERY"
            => calls[r][i].order.fulfillments[1].delivery_details.delivery_address.k = "object"

\* sum of price times quantity over lines whose prices are integers
RECURSIVE SumOfLines(_)
SumOfLines(items) ==
    IF items = <<>> THEN 0
    ELSE Head(items).priceCents.n * Head(items).qty.n + SumOfLines(Tail(items))

FriesTwiceAt299 == <<[name |-> "Small Fries", qty |-> Num(2), priceCents |-> Num(299)]>>

\* the order document of request r says delivery
OrderedDelivery(r) == calls[r][1].order.fulfillments[1].type = "DELIVERY"

C7_IdempotencyKeysDistinct ==
    \A r1, r2 \in Requests :
        \A i \in DOMAIN calls[r1], j \in DOMAIN calls[r2] :
            (r1 # r2 \/ i # j)
            => calls[r1][i].idempotency_key # calls[r2][j].idempotency_key

C7_Witness ==
    \E r1, r2 \in Requests :
        /\ r1 # r2
        /\ req[r1].raw = req[r2].raw
        /\ Len(calls[r1]) = 2
        /\ Len(calls[r2]) = 2

\* C8: a request that has ended has sent exactly one response, which is either a
\* success (200, orderId and paymentId present, no error) or a failure (400,
\* success false, an error message, no orderId and no paymentId).
C8_OneWellFormedResult ==
    \A r \in Requests :
        req[r].pc = "done"
        => /\ Len(sent[r]) = 1
           /\ \/ /\ sent[r][1].success
                 /\ sent[r][1].status = 200
                 /\ sent[r][1].orderId.k = "string"
                 /\ sent[r][1].paymentId.k = "string"
                 /\ sent[r][1].error = ""
              \/ /\ ~sent[r][1].success
                 /\ sent[r][1].status = 400
                 /\ sent[r][1].orderId.k = "undefined"
                 /\ sent[r][1].paymentId.k = "undefined"
                 /\ sent[r][1].error # ""

\* the payment call of request r has settled with anything but an HTTP success
PaymentFailed(r) ==
    /\ req[r].payResp # NoReply
    /\ ~(req[r].payResp.settled = "response" /\ req[r].payResp.ok)

\* C9: when the order call succeeded and the payment call then fails, the request
\* ends with one failure response that carries the provider's detail (the generic
\* "Square createPayment failed" when the refusal has none) and no order id, and
\* its remote calls are the order call and the payment call and nothing more.
C9_PaymentFailureReported ==
    \A r \in Requests :
        (OrderSucceeded(r) /\ PaymentFailed(r))
        => /\ req[r].pc = "done"
           /\ Len(sent[r]) = 1
           /\ sent[r][1].status = 400
           /\ ~sent[r][1].success
           /\ sent[r][1].orderId.k = "undefined"
           /\ sent[r][1].paymentId.k = "undefined"
           /\ sent[r][1].error # ""
           /\ req[r].payResp.settled = "response"
                 => sent[r][1].error = IF req[r].payResp.detail.k = "string"
                                       THEN req[r].payResp.detail.s
                                       ELSE "Square createPayment failed"
           /\ Len(calls[r]) = 2
           /\ calls[r][1].api = "orders"
           /\ calls[r][2].api = "payments"

C9_Witness ==
    \E r \in Requests :
        /\ OrderSucceeded(r)
        /\ req[r].orderId.k = "string"
        /\ PaymentFailed(r)
        /\ sent[r][1].error = "provider detail"

\* every table PRICE_BOOK may name
Books == {defaultPriceBook} \cup { file.table : file \in { f \in PriceFiles : f.object } }

\* all lines of request r carry the prices of the table `book`
PricedFrom(r, book) ==
    \A i \in DOMAIN req[r].items :
        req[r].items[i].priceCents = Lookup(book, req[r].items[i].name)

\* C10: whatever reloads interleave with the requests, the lines of a request
\* are all priced from one table: there is a table that gives every line's price.
C10_OneTablePerRequest ==
    \A r \in Requests : \E book \in Books : PricedFrom(r, book)

C10_Witness ==
    \E r1, r2 \in Requests :
        /\ Len(req[r1].items) = MaxCart
        /\ Len(req[r2].items) = MaxCart
        /\ PricedFrom(r1, defaultPriceBook)
        /\ PricedFrom(r2, RepricedBook)
        /\ req[r1].pc = "pay"
        /\ req[r2].pc = "order"

\* the stages in the order the handler's code passes them, and in the order the
\* specification lists them
CodeOrder ==
    <<"Received", "Sanitized", "OrderAssembled", "OrderCreated", "Totaled",
      "PaymentCaptured", "Succeeded">>
ListedOrder ==
    <<"Received", "Sanitized", "Totaled", "OrderAssembled", "OrderCreated",
      "PaymentCaptured", "Succeeded">>

IsPrefix(s, t) == Len(s) <= Len(t) /\ \A i \in DOMAIN s : s[i] = t[i]

\* the stages passed so far follow `order` from its start without a gap or a
\* step back, or do so up to a stage before the last and end in Failed
FollowsOrder(stages, order) ==
    \/ IsPrefix(stages, order)
    \/ /\ Len(stages) >= 2
       /\ Len(stages) <= Len(order)
       /\ stages[Len(stages)] = "Failed"
       /\ IsPrefix(SubSeq(stages, 1, Len(stages) - 1), order)

\* request r has ended: its last stage is Succeeded or Failed
Ended(r) ==
    /\ req[r].stages # <<>>
    /\ req[r].stages[Len(req[r].stages)] \in {"Succeeded", "Failed"}

\* nothing follows the end of request r: its handler has returned with exactly one
\* response, and its remote calls are the ones its stages issued (the order call
\* on OrderAssembled, the payment call on Totaled)
NothingAfterEnd(r) ==
    LET passed == { req[r].stages[i] : i \in DOMAIN req[r].stages } IN
    /\ Ended(r) <=> req[r].pc = "done"
    /\ Len(sent[r]) = IF Ended(r) THEN 1 ELSE 0
    /\ Len(calls[r]) = (IF "OrderAssembled" \in passed THEN 1 ELSE 0)
                       + (IF "Totaled" \in passed THEN 1 ELSE 0)

C12_NoRemoteCallRetried ==
    \A r \in Requests :
        /\ Cardinality(CallsTo(r, "orders")) <= 1
        /\ Cardinality(CallsTo(r, "payments")) <= 1
        /\ Len(calls[r]) <= 2

C12_Witness ==
    \E r \in Requests :
        /\ OrderFailed(r)
        /\ req[r].orderResp.settled = "rejected"
        /\ req[r].pc = "done"
        /\ Cardinality(CallsTo(r, "orders")) = 1
        /\ CallsTo(r, "payments") = {}

\* C13: every request that has arrived eventually ends (Succeeded or Failed) with
\* a response, also when a remote call never returns.
C13_EveryRequestEnds ==
    \A r \in Requests :
        (req[r].pc # "new") ~> (req[r].pc = "done" /\ Len(sent[r]) = 1)

\* the lines of request r are its own cart's lines, in order, each priced
OwnLines(r) ==
    /\ Len(req[r].items) = Len(req[r].raw.cart)
    /\ \A k \in DOMAIN req[r].items :
          /\ req[r].items[k].name = req[r].raw.cart[k].name
          /\ req[r].items[k].qty = req[r].raw.cart[k].qty
          /\ req[r].items[k].priceCents.k = "number"

\* C14: under every interleaving of the requests (and of reloads), a request's
\* payment call carries the order id its own order call returned, its own payment
\* token and the total of its own cart's lines (subtotal plus tax rounded to the
\* nearest cent), and a request that succeeded reports its own order id and
\* payment id; nothing of another request enters.
C14_RequestsIndependent ==
    \A r \in Requests :
        /\ \A i \in CallsTo(r, "payments") :
              LET base == SumOfLines(req[r].items)
                  tax == calls[r][i].amount.n - base IN
              /\ req[r].orderResp.id \in { Str(id) : id \in OrderIds(r) }
              /\ calls[r][i].order_id = req[r].orderResp.id
              /\ calls[r][i].source_id = req[r].raw.paymentToken
              /\ OwnLines(r)
              /\ calls[r][i].amount.k = "number"
              /\ 200 * tax <= 2 * base * TAX_RATE_PERCENT + 100
              /\ 2 * base * TAX_RATE_PERCENT + 100 < 200 * tax + 200
        /\ (req[r].pc = "done" /\ sent[r][1].success)
              => /\ sent[r][1].orderId = req[r].orderResp.id
                 /\ sent[r][1].paymentId = req[r].payResp.id

C14_Witness ==
    \E r1, r2 \in Requests :
        /\ Len(calls[r1]) = 2
        /\ Len(calls[r2]) = 2
        /\ req[r1].pc = "pay"
        /\ req[r2].pc = "done"
        /\ sent[r2][1].success
        /\ calls[r1][2].source_id # calls[r2][2].source_id
        /\ calls[r1][2].order_id # calls[r2][2].order_id
        /\ calls[r1][2].amount # calls[r2][2].amount

\* C15: for every request that reaches the payment call, whatever table
\* PRICE_BOOK holds, every line's unit price and the subtotal, the tax and the
\* total (the amount charged) are integers that are not negative.
C15_AmountsNonNegative ==
    \A r \in Requests :
        \A i \in CallsTo(r, "payments") :
            LET items == req[r].items
                amount == calls[r][i].amount
                subtotalCents == SumOfLines(items)
                                 + (IF OrderedDelivery(r) THEN DELIVERY_FEE_CENTS ELSE 0)
                taxCents == amount.n - subtotalCents IN
            /\ \A k \in DOMAIN items :
                  items[k].priceCents.k = "number" /\ items[k].priceCents.n >= 0
            /\ amount.k = "number"
            /\ subtotalCents >= 0
            /\ taxCents >= 0
            /\ amount.n >= 0

\* a quantity that is zero, negative, not an integer or missing
BadQty(qty) == ~(qty.k = "number" /\ qty.n >= 1)

\* the first line of the cart that sanitizeCart refuses, 0 when it refuses none
FirstBadLine(book, cart) ==
    LET bad == { i \in DOMAIN cart : IsNullish(Lookup(book, cart[i].name)) \/ BadQty(cart[i].qty) }
    IN  IF bad = {} THEN 0 ELSE CHOOSE i \in bad : \A j \in bad : i <= j

AsksDelivery(r) == req[r].raw.fulfillment = Str("delivery")

\* the order document of request r carries the delivery fee as a line
FeeLineDue(r) == AsksDelivery(r) /\ DELIVERY_FEE_CENTS > 0

\* C17: the order document has one entry per sanitized line, in cart order, with
\* the line's name, quantity and unit price, followed by one "Delivery Fee" line
\* of DELIVERY_FEE_CENTS exactly when the request asks for delivery and the fee is
\* positive; and exactly then the fee is part of the base the tax is computed on
\* (the amount charged is that base plus the tax on it).
C17_OrderLinesAndFee ==
    \A r \in Requests :
        LET items == req[r].items
            base == SumOfLines(items) + (IF FeeLineDue(r) THEN DELIVERY_FEE_CENTS ELSE 0) IN
        /\ \A i \in CallsTo(r, "orders") :
              LET doc == calls[r][i].order.line_items IN
              /\ Len(doc) = Len(items) + (IF FeeLineDue(r) THEN 1 ELSE 0)
              /\ \A k \in DOMAIN items :
                    /\ doc[k].name = items[k].name
                    /\ doc[k].quantity = StringOf(items[k].qty)
                    /\ doc[k].amount.k = "number"
                    /\ doc[k].amount = items[k].priceCents
              /\ FeeLineDue(r)
                    => doc[Len(doc)] = [name |-> "Delivery Fee", quantity |-> Str("1"),
                                        amount |-> Num(DELIVERY_FEE_CENTS), currency |-> "USD"]
        /\ \A i \in CallsTo(r, "payments") :
              LET tax == calls[r][i].amount.n - base IN
              /\ calls[r][i].amount.k = "number"
              /\ 200 * tax <= 2 * base * TAX_RATE_PERCENT + 100
              /\ 2 * base * TAX_RATE_PERCENT + 100 < 200 * tax + 200

\* the contact of the body of request r, as a recipient
ContactOf(r) ==
    [display_name |-> req[r].raw.contact.name, phone_number |-> req[r].raw.contact.phone,
     email_address |-> req[r].raw.contact.email]

\* the body of request r names a pickup time (a blank one names none)
PickupTimeSupplied(r) == req[r].raw.pickupTime.k = "string" /\ req[r].raw.pickupTime.s # ""

\* C18: the order document of a pickup request (fulfillment absent or "pickup")
\* has exactly one fulfillment block, of type PICKUP, with no delivery details,
\* the contact as recipient, schedule type SCHEDULED when a pickup time was
\* supplied (a blank time counts as none) and ASAP otherwise, and pickup_at equal
\* to the supplied time when scheduled.
C18_PickupFulfillment ==
    \A r \in Requests :
        \A i \in CallsTo(r, "orders") :
            ~AsksDelivery(r) =>
            LET blocks == calls[r][i].order.fulfillments IN
            /\ Len(blocks) = 1
            /\ blocks[1].type = "PICKUP"
            /\ blocks[1].delivery_details.k = "undefined"
            /\ blocks[1].pickup_details.k = "object"
            /\ blocks[1].pickup_details.recipient = ContactOf(r)
            /\ blocks[1].pickup_details.schedule_type =
                  IF PickupTimeSupplied(r) THEN "SCHEDULED" ELSE "ASAP"
            /\ PickupTimeSupplied(r) => blocks[1].pickup_details.pickup_at = req[r].raw.pickupTime

C18_Witness ==
    \E r \in Requests :
        /\ req[r].raw.fulfillment = UNDEF
        /\ req[r].raw.pickupTime = PickupTime
        /\ Len(calls[r]) >= 1
        /\ calls[r][1].order.fulfillments[1].pickup_details.schedule_type = "SCHEDULED"
        /\ calls[r][1].order.fulfillments[1].pickup_details.pickup_at = PickupTime

\* a field of an address object is given (a blank one is not)
Given(x) == x.k = "string" /\ x.s # ""

\* C19: the order document of a delivery request has one fulfillment block, of
\* type DELIVERY, with schedule type ASAP whatever pickup time came with the
\* request, the contact as recipient, and as delivery address
\* {address_line_1: text, country: "US"} for a free-text address, or the address
\* object with its fields as they came and the country "US" when none is given (a
\* blank country counts as none).
C19_DeliveryFulfillment ==
    \A r \in Requests :
        \A i \in CallsTo(r, "orders") :
            AsksDelivery(r) =>
            LET blocks == calls[r][i].order.fulfillments
                details == blocks[1].delivery_details
                address == req[r].raw.address IN
            /\ Len(blocks) = 1
            /\ blocks[1].type = "DELIVERY"
            /\ blocks[1].pickup_details.k = "undefined"
            /\ details.k = "object"
            /\ details.schedule_type = "ASAP"
            /\ details.recipient = ContactOf(r)
            /\ address.k = "string"
                  => details.delivery_address =
                        [k |-> "object", s |-> "", address_line_1 |-> Str(address.s),
                         locality |-> UNDEF, administrative_district_level_1 |-> UNDEF,
                         postal_code |-> UNDEF, country |-> Str("US")]
            /\ address.k = "object"
                  => /\ details.delivery_address.k = "object"
                     /\ details.delivery_address.address_line_1 = address.address_line_1
                     /\ details.delivery_address.locality = address.locality
                     /\ details.delivery_address.administrative_district_level_1
                           = address.administrative_district_level_1
                     /\ details.delivery_address.postal_code = address.postal_code
                     /\ details.delivery_address.country =
                           IF Given(address.country) THEN address.country ELSE Str("US")

C19_Witness ==
    \E r \in Requests :
        /\ AsksDelivery(r)
        /\ req[r].raw.address = ObjectAddress(Str("9 Elm St"), Str("Buffalo"), UNDEF)
        /\ Len(calls[r]) >= 1
        /\ calls[r][1].order.fulfillments[1].delivery_details.delivery_address
              = ObjectAddress(Str("9 Elm St"), Str("Buffalo"), Str("US"))

\* C20: after any sequence of addItem, setQty, removeItem and clearCart with any
\* quantity arguments (numbers, numeric and non-numeric strings, zero, negatives,
\* undefined), every line of the stored cart has a quantity that is an integer of
\* at least 1.
C20_StoredQuantityAtLeastOne ==
    \A i \in DOMAIN store : store[i].qty.k = "number" /\ store[i].qty.n >= 1

\* the number a quantity or percentage string of the order document stands for
NumberIn(text) == CHOOSE i \in 0..99 : StringOf(Num(i)) = text

\* sum of amount times quantity over the lines of an order document whose
\* amounts are numbers
RECURSIVE SumOfDocument(_)
SumOfDocument(lines) ==
    IF lines = <<>> THEN 0
    ELSE Head(lines).amount.n * NumberIn(Head(lines).quantity) + SumOfDocument(Tail(lines))

\* C21: with a tax rate and a delivery fee that are not negative, the amount of a
\* request's payment call is derived from what the order document of its order
\* call shows: the sum of amount times quantity over the document's lines (the
\* fee line among them) plus the tax on that sum at the document's percentage,
\* rounded to the nearest cent; this also when the price table was replaced
\* between the two calls.  (A document line without a numeric amount gives an
\* amount that is not a number.)
C21_ChargeAgreesWithOrder ==
    \A r \in Requests :
        \A i \in CallsTo(r, "payments"), j \in CallsTo(r, "orders") :
            (TAX_RATE_PERCENT >= 0 /\ DELIVERY_FEE_CENTS >= 0) =>
            LET doc == calls[r][j].order
                amount == calls[r][i].amount
                rate == IF doc.taxes = <<>> THEN 0 ELSE NumberIn(doc.taxes[1].percentage)
                base == SumOfDocument(doc.line_items)
                tax == amount.n - base
            IN  /\ j < i
                /\ IF \A k \in DOMAIN doc.line_items : doc.line_items[k].amount.k = "number"
                   THEN /\ amount.k = "number"
                        /\ 200 * tax <= 2 * base * rate + 100
                        /\ 2 * base * rate + 100 < 200 * tax + 200
                   ELSE amount.k = "null"

\* the table was replaced while the order call was awaited, and the payment is
\* for the prices of the order document, not for those of the table as it is now
C21_Witness ==
    \E r \in Requests :
        /\ reloads >= 1
        /\ PRICE_BOOK = RepricedBook
        /\ req[r].items = FriesTwiceAt299
        /\ AsksDelivery(r)
        /\ DELIVERY_FEE_CENTS = 300
        /\ TAX_RATE_PERCENT = 8
        /\ Len(calls[r]) = 2
        /\ calls[r][1].order.line_items[1].amount = Num(299)
        /\ calls[r][2].amount = Num(970)

\* no two lines of the stored cart have the same name
NoDuplicateNames ==
    \A i, j \in DOMAIN store : store[i].name = store[j].name => i = j

\* what a call addItem(name, priceCents, qty) does to the stored cart: a line of
\* that name gains the quantity added (the argument as addItem coerces it) and
\* nothing else changes; without such a line, one line is appended.  (When the
\* quantity added or the line's quantity is not a number, C20's case, the line's
\* quantity is stored as null.)
AddItemEffect(name, priceCents, qtyArg) ==
    LET added == Coerce(IF qtyArg.k = "undefined" THEN Num(1) ELSE qtyArg)
        found == { i \in DOMAIN store : store[i].name = name } IN
    IF found # {}
    THEN /\ Len(store') = Len(store)
         /\ \A i \in DOMAIN store :
               IF i \in found
               THEN /\ store'[i].name = name
                    /\ store'[i].priceCents = store[i].priceCents
                    /\ store'[i].qty =
                          IF added.k = "number" /\ store[i].qty.k = "number"
                          THEN Num(store[i].qty.n + added.n)
                          ELSE IF added.k = "number" /\ store[i].qty.k = "null"
                          THEN added
                          ELSE NULL
               ELSE store'[i] = store[i]
    ELSE /\ Len(store') = Len(store) + 1
         /\ \A i \in DOMAIN store : store'[i] = store[i]
         /\ store'[Len(store')].name = name
         /\ store'[Len(store')].priceCents = priceCents
         /\ store'[Len(store')].qty = IF added.k = "number" THEN added ELSE NULL

\* C22: starting from the empty cart, after any sequence of addItem, setQty,
\* removeItem and clearCart no two lines have the same name; addItem for a name
\* in the cart adds the quantity to that line and leaves the number of lines and
\* every other line as they were, and addItem for a new name appends one line.
C22_OneLinePerName ==
    /\ []NoDuplicateNames
    /\ [][\A name \in MenuItems, qty \in QtyArgs :
             addItem(name, defaultPriceBook[name], qty)
             => AddItemEffect(name, defaultPriceBook[name], qty)]_vars

\* no argument is coerced to 3, so a line with quantity 3 has been added to
C22_Witness ==
    /\ Len(store) = 2
    /\ store[1] = [name |-> "Small Fries", priceCents |-> Num(299), qty |-> Num(3)]
    /\ store[2] = [name |-> "Soda Can", priceCents |-> Num(150), qty |-> Num(1)]
====
